---------------------------- MODULE Spec2Model ----------------------------
(***************************************************************************)
(* RiskOnto compliance and risk dashboard (dashboard_v1.py, dashboard.py). *)
(*                                                                         *)
(* One run of the script is one computation pass over the loaded ontology: *)
(* graph explorer, mapped mitigations table, tool compliance loop, risk    *)
(* analysis loop, risk filters and heatmap.  The two scripts share the     *)
(* compliance and risk loops and the filters, and differ in the graph      *)
(* explorer and the mapped mitigations table; the variable `variant` says  *)
(* which script runs.                                                      *)
(*                                                                         *)
(* Representation.                                                         *)
(*  - A string is a sequence of tokens.  A token is a run of characters    *)
(*    that the string functions used by the scripts never split; the       *)
(*    tokens " ", "," and "#" are the single characters, and the token     *)
(*    "Subcategory for" (with its case variants) is that text without the  *)
(*    space that follows it.                                               *)
(*  - An rdflib node is [kind, id]: kind is "URIRef" or "BNode", id its    *)
(*    string.  A label read from the graph is an rdflib Literal, a local   *)
(*    name cut from an identifier is a plain str: a resolved label is      *)
(*    [lit, s], lit telling the two apart (rdflib compares a Literal       *)
(*    unequal to every plain str).                                         *)
(*  - The objects of a single-valued property are a sequence of length 0   *)
(*    or 1, so that next(g.objects(..), default) is "first, else default". *)
(*  - A float is an integer number of tenths (5.0 is 50); a compliance     *)
(*    score is the exact fraction [n, d] of comp * 100 over total.         *)
(*  - The store iterates nodes in a fixed order (StoreOrder), reversed     *)
(*    when the ontology's `rev` flag is set.                               *)
(***************************************************************************)
EXTENDS Integers, Sequences, FiniteSets, TLC

VARIABLES
    g,                  \* the loaded ontology (rdflib Graph), read-only
    variant,            \* "v1" = dashboard_v1.py, "v0" = dashboard.py
    tool_filter,        \* sidebar selection: "All" or a tool label (str)
    pc,                 \* the section about to run ("filters": the risk filters
                        \* that follow the risk analysis; "done": the pass is
                        \* over), or the exception that ended the pass
    net_nodes,          \* pyvis network: node ids
    net_edges,          \* pyvis network: edges <<from, to>>
    mapped,             \* mapped mitigations rows (list)
    df_mapped,          \* the table displayed (<<>> until built)
    compliance_summary, \* tool compliance overview rows
    recommendations,    \* recommendation rows
    risk_data,          \* risk rows appended so far
    compliance_rows,    \* compliance score rows
    alerts,             \* alert rows appended so far
    df_risk,            \* <<>> until built, then <<risk table>>
    df_alerts,          \* <<>> until built, then <<alert table>>
    asset_filter,       \* sidebar selection: "All" or an Asset label of the table
    severity_filter,    \* sidebar selection: "All" or a severity of the table
    filtered_risk,      \* the risk rows left by the three filters
    heatmap             \* <<>> until built, then <<pivot table>>

vars == <<g, variant, tool_filter, pc, net_nodes, net_edges, mapped, df_mapped,
          compliance_summary, recommendations, risk_data, compliance_rows,
          alerts, df_risk, df_alerts, asset_filter, severity_filter,
          filtered_risk, heatmap>>

-----------------------------------------------------------------------------
(* Strings *)

\* the element of a one-element set.  Only({f(v) : v \in {e}}) is f(e) with
\* e evaluated once, before f, as a Python call evaluates its argument
Only(S) == CHOOSE x \in S : TRUE

SubFor == "Subcategory for"

\* str.lower() on one token
LowerTok(t) ==
    CASE t = "Subcategory for" -> "subcategory for"
      [] t = "SUBCATEGORY FOR" -> "subcategory for"
      [] t = "A" -> "a"
      [] t = "B" -> "b"
      [] t = "T" -> "t"
      [] OTHER -> t

Lower(s) == [i \in 1..Len(s) |-> LowerTok(s[i])]

\* the characters " " and "," occur in the token
HasSpace(t) == t \in {" ", "Subcategory for", "subcategory for", "SUBCATEGORY FOR"}
HasComma(t) == t = ","

\* s.split("#")[-1]: F[i] is what follows the last "#" in s[1..i]
SplitLast(s) ==
    LET F[i \in 0..Len(s)] ==
            IF i = 0 THEN <<>>
            ELSE IF s[i] = "#" THEN <<>>
            ELSE Append(F[i - 1], s[i])
    IN  F[Len(s)]

\* s.replace("Subcategory for ", ""): F[i] is the result for s[i..]
RemovePrefixText(s) ==
    LET F[i \in 1..(Len(s) + 1)] ==
            IF i > Len(s) THEN <<>>
            ELSE IF i < Len(s) /\ s[i] = SubFor /\ s[i + 1] = " " THEN F[i + 2]
            ELSE <<s[i]>> \o F[i + 1]
    IN  F[1]

\* s.strip(): F[i] strips s[i..] on the left, s[1..i] on the right
LStrip(s) ==
    LET F[i \in 1..(Len(s) + 1)] ==
            IF i > Len(s) THEN <<>>
            ELSE IF s[i] = " " THEN F[i + 1]
            ELSE SubSeq(s, i, Len(s))
    IN  F[1]
RStrip(s) ==
    LET F[i \in 0..Len(s)] ==
            IF i = 0 THEN <<>>
            ELSE IF s[i] = " " THEN F[i - 1]
            ELSE SubSeq(s, 1, i)
    IN  F[Len(s)]
Strip(s) == Only({RStrip(t) : t \in {LStrip(s)}})

\* label.lower().startswith("subcategory for")
StartsWithSubcategoryFor(s) == s # <<>> /\ Lower(s)[1] = "subcategory for"

Str(txt) == [lit |-> FALSE, s |-> txt]
Lit(txt) == [lit |-> TRUE, s |-> txt]

\* first element of an iterator, else the default: next(it, default)
NextOr(it, default) == IF it = <<>> THEN default ELSE it[1]


-----------------------------------------------------------------------------
(* Nodes and the store *)

NS == "http://example.org/riskonto"
U(frag) == [kind |-> "URIRef", id |-> <<NS, "#">> \o frag]
B(name) == [kind |-> "BNode", id |-> <<name>>]

s1 == U(<<"s1">>)
s2 == U(<<"s2">>)
sX == U(<<"s", " ", "x">>)      \* malformed: a space in the identifier
c1 == U(<<"c1">>)
c2 == U(<<"c2">>)
cX == U(<<"c", ",", "x">>)      \* malformed: a comma in the identifier
q1 == U(<<"q1">>)
q2 == U(<<"q2">>)
qX == U(<<"q", " ", "x">>)      \* malformed
bq == B("b0")                   \* a blank node
t1 == U(<<"t1">>)
t2 == U(<<"t2">>)
a1 == U(<<"a1">>)
a2 == U(<<"a", " ", "2">>)      \* malformed
h1 == U(<<"h1">>)
h2 == U(<<"h", ",", "2">>)      \* malformed

StoreOrder == <<s1, s2, sX, c1, c2, cX, q1, q2, qX, bq, t1, t2, a1, a2, h1, h2>>
Nodes == {StoreOrder[i] : i \in 1..Len(StoreOrder)}

Reverse(s) == [i \in 1..Len(s) |-> s[Len(s) + 1 - i]]
Order == IF g.rev THEN Reverse(StoreOrder) ELSE StoreOrder

\* the nodes of S in the order the store yields them
InOrder(S) == Only({SelectSeq(Order, LAMBDA n : n \in T) : T \in {S}})

\* g.objects(s, p) and g.subjects(p, o) for an object property p
Objects(rel, s) == InOrder({x[2] : x \in {y \in rel : y[1] = s}})
Subjects(rel, o) == InOrder({x[1] : x \in {y \in rel : y[2] = o}})

\* g.triples((None, p, None)) as <<subject, object>> pairs: subject by
\* subject, the objects of each in turn
TriplesFrom(rel, subs) ==
    LET F[i \in 0..Len(subs)] ==
            IF i = 0 THEN <<>>
            ELSE F[i - 1] \o Only({[j \in 1..Len(os) |-> <<subs[i], os[j]>>] :
                                      os \in {Objects(rel, subs[i])}})
    IN  F[Len(subs)]
Triples(rel) == Only({TriplesFrom(rel, subs) : subs \in {InOrder({x[1] : x \in rel})}})

\* g.objects(n, p) for a literal-valued property p (a function of the graph)
Values(prop, n) == IF n \in DOMAIN prop THEN prop[n] ELSE <<>>

-----------------------------------------------------------------------------
(* Label resolver *)

\* next(g.objects(x, RDFS.label), x.split("#")[-1])
RawLabel(x) ==
    NextOr([i \in 1..Len(Values(g.label, x)) |-> Lit(Values(g.label, x)[i])],
           Str(SplitLast(x.id)))

clean_label(label) == Str(Only({Strip(t) : t \in {RemovePrefixText(label.s)}}))

CleanLabel(x) == Only({clean_label(label) : label \in {RawLabel(x)}})

is_valid_uri(uri) ==
    /\ uri.kind = "URIRef"
    /\ \A i \in 1..Len(uri.id) : ~HasSpace(uri.id[i]) /\ ~HasComma(uri.id[i])

-----------------------------------------------------------------------------
(* Graph explorer *)

\* what pc, the network and the tables leave alone in each section
Inputs == <<g, variant, tool_filter>>
NetVars == <<net_nodes, net_edges>>
MapVars == <<mapped, df_mapped>>
CompVars == <<compliance_summary, recommendations>>
RiskVars == <<risk_data, compliance_rows, alerts, df_risk, df_alerts>>
FilterVars == <<asset_filter, severity_filter, filtered_risk, heatmap>>

\* dashboard_v1.py: the visits of the nested loops that pass the validity
\* guards: sub-categories, <<subcat, control>> and <<subcat, control, tech>>
V1Subcats == {s \in g.subcats : is_valid_uri(s)}
V1Controls == {x \in g.hasControl : x[1] \in V1Subcats /\ is_valid_uri(x[2])}
V1Techs == {p \in {<<x[1], x[2], y[2]>> : x \in V1Controls, y \in g.hasMitigation} :
                <<p[2], p[3]>> \in g.hasMitigation /\ is_valid_uri(p[3])}

GraphExplorerV1 ==
    /\ pc = "explorer"
    /\ variant = "v1"
    /\ net_nodes' = {CleanLabel(s) : s \in V1Subcats}
                      \cup {CleanLabel(x[2]) : x \in V1Controls}
                      \cup {CleanLabel(p[3]) : p \in V1Techs}
    /\ net_edges' = {<<CleanLabel(x[1]), CleanLabel(x[2])>> : x \in V1Controls}
                      \cup {<<CleanLabel(p[2]), CleanLabel(p[3])>> : p \in V1Techs}
    /\ pc' = "mitigations"
    /\ UNCHANGED <<Inputs, MapVars, CompVars, RiskVars, FilterVars>>

\* dashboard.py: the visits of the nested loops; a sub-category whose label
\* starts with "subcategory for" (any case) is skipped with all below it
V0Subcats == {s \in g.subcats : ~StartsWithSubcategoryFor(RawLabel(s).s)}
V0Controls == {x \in g.hasControl : x[1] \in V0Subcats}
V0Techs == {p \in {<<x[1], x[2], y[2]>> : x \in V0Controls, y \in g.hasMitigation} :
                <<p[2], p[3]>> \in g.hasMitigation}

GraphExplorerV0 ==
    /\ pc = "explorer"
    /\ variant = "v0"
    /\ net_nodes' = {RawLabel(s) : s \in V0Subcats}
                      \cup {RawLabel(x[2]) : x \in V0Controls}
                      \cup {RawLabel(p[3]) : p \in V0Techs}
    /\ net_edges' = {<<RawLabel(x[1]), RawLabel(x[2])>> : x \in V0Controls}
                      \cup {<<RawLabel(p[2]), RawLabel(p[3])>> : p \in V0Techs}
    /\ pc' = "mitigations"
    /\ UNCHANGED <<Inputs, MapVars, CompVars, RiskVars, FilterVars>>

-----------------------------------------------------------------------------
(* Mapped mitigations table *)

MapRow(sl, cl, tl) ==
    [subcategory |-> sl, control |-> cl, technique |-> tl]

\* dashboard_v1.py: one hasMitigation triple tr = <<control, technique>>
V1MapStep(acc, tr) ==
    IF ~(is_valid_uri(tr[1]) /\ is_valid_uri(tr[2])) THEN acc
    ELSE IF Subjects(g.hasControl, tr[1]) = <<>> THEN acc
    ELSE IF ~is_valid_uri(Subjects(g.hasControl, tr[1])[1]) THEN acc
    ELSE Append(acc, MapRow(CleanLabel(Subjects(g.hasControl, tr[1])[1]),
                            CleanLabel(tr[1]), CleanLabel(tr[2])))

V1MappedFrom(trs) ==
    LET F[i \in 0..Len(trs)] == IF i = 0 THEN <<>> ELSE V1MapStep(F[i - 1], trs[i])
    IN  F[Len(trs)]
V1Mapped == Only({V1MappedFrom(trs) : trs \in {Triples(g.hasMitigation)}})

\* DataFrame.drop_duplicates(): the first of each run of equal rows is kept
DropDuplicates(rows) ==
    LET F[i \in 0..Len(rows)] ==
            IF i = 0 THEN <<>>
            ELSE IF \E j \in 1..(i - 1) : rows[j] = rows[i] THEN F[i - 1]
            ELSE Append(F[i - 1], rows[i])
    IN  F[Len(rows)]

\* the filter widgets index the table's columns: a table without rows has
\* none, and the lookup raises KeyError
MappedMitigationsV1 ==
    /\ pc = "mitigations"
    /\ variant = "v1"
    /\ \E rows \in {V1Mapped} :
          /\ mapped' = rows
          /\ df_mapped' = DropDuplicates(rows)
          /\ pc' = IF rows = <<>> THEN "KeyError" ELSE "compliance"
    /\ UNCHANGED <<Inputs, NetVars, CompVars, RiskVars, FilterVars>>

\* dashboard.py: one hasMitigation triple, every sub-category of its control
V0MapRows(acc, tr, subs) ==
    LET F[i \in 0..Len(subs)] ==
            IF i = 0 THEN acc
            ELSE IF StartsWithSubcategoryFor(RawLabel(subs[i]).s) THEN F[i - 1]
            ELSE Append(F[i - 1],
                        MapRow(RawLabel(subs[i]), RawLabel(tr[1]), RawLabel(tr[2])))
    IN  F[Len(subs)]
V0MapStep(acc, tr) ==
    Only({V0MapRows(acc, tr, subs) : subs \in {Subjects(g.hasControl, tr[1])}})

V0MappedFrom(trs) ==
    LET F[i \in 0..Len(trs)] == IF i = 0 THEN <<>> ELSE V0MapStep(F[i - 1], trs[i])
    IN  F[Len(trs)]
V0Mapped == Only({V0MappedFrom(trs) : trs \in {Triples(g.hasMitigation)}})

MappedMitigationsV0 ==
    /\ pc = "mitigations"
    /\ variant = "v0"
    /\ \E rows \in {V0Mapped} :
          /\ mapped' = rows
          /\ df_mapped' = rows
          /\ pc' = IF rows = <<>> THEN "KeyError" ELSE "compliance"
    /\ UNCHANGED <<Inputs, NetVars, CompVars, RiskVars, FilterVars>>

-----------------------------------------------------------------------------
(* Tool compliance *)

All == <<"All">>

\* a != b for a resolved label a and a plain str b: an rdflib Literal is
\* unequal to every plain str
LabelNeStr(a, b) == a.lit \/ a.s # b

\* the loops' guard: if tool_filter != "All" and tool_label != tool_filter: continue
PassesFilter(tool) == ~(tool_filter # All /\ LabelNeStr(RawLabel(tool), tool_filter))

\* set(g.objects(tool, NIST.implementsControl))
Compliant(tool) == {x[2] : x \in {y \in g.implementsControl : y[1] = tool}}

\* set(controls) - compliant
Missing(tool) == g.controls \ Compliant(tool)

\* ", ".join(sorted(items)) or "None": the text is fixed by the items
JoinOrNone(items) == IF items = {} THEN {Str(<<"None">>)} ELSE items

SummaryRow(tool) ==
    [Tool |-> RawLabel(tool),
     CompliantWith |-> JoinOrNone({Str(SplitLast(c.id)) : c \in Compliant(tool)}),
     NonCompliantWith |-> JoinOrNone({Str(SplitLast(m.id)) : m \in Missing(tool)}),
     RecommendedMitigations |->
         JoinOrNone({RawLabel(x[2]) : x \in {y \in g.hasMitigation : y[1] \in Missing(tool)}})]

Explanation(tool_label, m_label, t_label) ==
    tool_label.s \o <<" lacks NIST control ">> \o m_label.s
        \o <<", which is mitigated by ">> \o t_label.s
        \o <<" of the D3fend Technique.">>

RecoRow(tool, m, t) ==
    [Tool |-> RawLabel(tool),
     MissingControl |-> RawLabel(m),
     SuggestedTechnique |-> RawLabel(t),
     Explanation |-> Explanation(RawLabel(tool), RawLabel(m), RawLabel(t))]

\* for m in missing: for t in g.objects(m, NIST.hasMitigation): append
RecoRowsFrom(tool, ms) ==
    LET F[i \in 0..Len(ms)] ==
            IF i = 0 THEN <<>>
            ELSE F[i - 1] \o Only({[j \in 1..Len(ts) |-> RecoRow(tool, ms[i], ts[j])] :
                                      ts \in {Objects(g.hasMitigation, ms[i])}})
    IN  F[Len(ms)]
RecoRowsOf(tool) == Only({RecoRowsFrom(tool, ms) : ms \in {InOrder(Missing(tool))}})

ToolCompliance ==
    /\ pc = "compliance"
    /\ \E ts \in {InOrder(g.tools)} :
          LET S[i \in 0..Len(ts)] ==
                  IF i = 0 THEN <<>>
                  ELSE IF ~PassesFilter(ts[i]) THEN S[i - 1]
                  ELSE Append(S[i - 1], SummaryRow(ts[i]))
              R[i \in 0..Len(ts)] ==
                  IF i = 0 THEN <<>>
                  ELSE IF ~PassesFilter(ts[i]) THEN R[i - 1]
                  ELSE R[i - 1] \o RecoRowsOf(ts[i])
          IN  /\ compliance_summary' = S[Len(ts)]
              /\ recommendations' = R[Len(ts)]
    /\ pc' = "risk"
    /\ UNCHANGED <<Inputs, NetVars, MapVars, RiskVars, FilterVars>>

-----------------------------------------------------------------------------
(* Risk analysis *)

ValueError == [ok |-> FALSE, v |-> 0]
Num(n) == [ok |-> TRUE, v |-> n]

\* float(literal), in tenths
Float(lex) ==
    CASE lex = "0.0" -> Num(0)
      [] lex = "0" -> Num(0)
      [] lex = "0.5" -> Num(5)
      [] lex = "3" -> Num(30)
      [] lex = "3.0" -> Num(30)
      [] lex = "4.9" -> Num(49)
      [] lex = "5.0" -> Num(50)
      [] lex = "7.0" -> Num(70)
      [] OTHER -> ValueError

\* int(literal): only a run of digits parses
Int10(lex) ==
    CASE lex = "0" -> Num(0)
      [] lex = "3" -> Num(3)
      [] OTHER -> ValueError

\* mutant of Score: no controls counted as full compliance
ScoreVacuous(tool) ==
    LET comp == Len(Objects(g.implementsControl, tool))
        total == Cardinality(g.controls)
    IN  IF total > 0 THEN [n |-> comp * 100, d |-> total] ELSE [n |-> 100, d |-> 1]

\* score = (comp / total * 100) if total > 0 else 0, as an exact fraction
Score(tool) ==
    LET comp == Len(Objects(g.implementsControl, tool))
        total == Cardinality(g.controls)
    IN  IF total > 0 THEN [n |-> comp * 100, d |-> total] ELSE [n |-> 0, d |-> 1]

\* score < k
ScoreLt(score, k) == score.n < k * score.d

\* round(score, 2), in hundredths
Round2(score) == (score.n * 200 + score.d) \div (2 * score.d)

ScoreRow(tool) ==
    [Tool |-> RawLabel(tool),
     Score |-> Round2(Score(tool)),
     Passed |-> Len(Objects(g.implementsControl, tool)),
     Failed |-> Cardinality(g.controls \ {x[2] : x \in {y \in g.implementsControl : y[1] = tool}})]

\* mutant of Sev: another default for a threat without severity
SevDefaultNone(threat) == NextOr(Values(g.severityLevel, threat), "None")

Sev(threat) == NextOr(Values(g.severityLevel, threat), "Unknown")
Lik(threat) == Float(NextOr(Values(g.likelihood, threat), "0.0"))
Imp(threat) == Int10(NextOr(Values(g.impact, threat), "0"))
Risk(threat) == Float(NextOr(Values(g.riskScore, threat), "0.0"))

\* building the risk row coerces the three numbers; a literal that does not
\* parse raises ValueError
Raises(threat) == ~Lik(threat).ok \/ ~Imp(threat).ok \/ ~Risk(threat).ok

RiskRow(tool, asset, threat) ==
    [Tool |-> RawLabel(tool), Asset |-> RawLabel(asset), Threat |-> RawLabel(threat),
     Severity |-> Sev(threat), Likelihood |-> Lik(threat).v,
     Impact |-> Imp(threat).v, RiskScore |-> Risk(threat).v]

\* mutant of AlertCondition: the risk threshold taken as exclusive
AlertConditionExclusive(tool, threat) ==
    Risk(threat).v > 50 /\ Sev(threat) = "High" /\ ScoreLt(Score(tool), 50)

AlertCondition(tool, threat) ==
    Risk(threat).v >= 50 /\ Sev(threat) = "High" /\ ScoreLt(Score(tool), 50)

AlertRow(tool, asset, threat) ==
    [Tool |-> RawLabel(tool), Asset |-> RawLabel(asset), Threat |-> RawLabel(threat),
     Severity |-> Sev(threat), RiskScore |-> Risk(threat).v,
     ComplianceScore |-> Round2(Score(tool)),
     Alert |-> "High risk threat + low compliance"]

\* mutant of RiskStep: a literal that does not parse is zeroed and the loop
\* goes on
RiskStepZeroing(st, tool, tr) ==
    IF st.raised THEN st
    ELSE [st EXCEPT
            !.rows = Append(@, RiskRow(tool, tr[1], tr[2])),
            !.alerts = IF AlertCondition(tool, tr[2])
                       THEN Append(@, AlertRow(tool, tr[1], tr[2])) ELSE @]

\* one iteration of the inner loop; st = [rows, crows, alerts, raised]
RiskStep(st, tool, tr) ==
    IF st.raised THEN st
    ELSE IF Raises(tr[2]) THEN [st EXCEPT !.raised = TRUE]
    ELSE [st EXCEPT
            !.rows = Append(@, RiskRow(tool, tr[1], tr[2])),
            !.alerts = IF AlertCondition(tool, tr[2])
                       THEN Append(@, AlertRow(tool, tr[1], tr[2])) ELSE @]

\* the inner loop of one tool over the isTargetedBy triples
RiskTriples(st, tool, trs) ==
    LET F[i \in 0..Len(trs)] ==
            IF i = 0 THEN [st EXCEPT !.crows = Append(@, ScoreRow(tool))]
            ELSE Only({RiskStep(a, tool, trs[i]) : a \in {F[i - 1]}})
    IN  F[Len(trs)]

\* one iteration of the outer loop
RiskTool(st, tool) ==
    IF st.raised \/ ~PassesFilter(tool) THEN st
    ELSE Only({RiskTriples(st, tool, trs) : trs \in {Triples(g.isTargetedBy)}})

RiskTools(ts) ==
    LET F[i \in 0..Len(ts)] ==
            IF i = 0 THEN [rows |-> <<>>, crows |-> <<>>, alerts |-> <<>>, raised |-> FALSE]
            ELSE Only({RiskTool(a, ts[i]) : a \in {F[i - 1]}})
    IN  F[Len(ts)]
RiskLoop == Only({RiskTools(ts) : ts \in {InOrder(g.tools)}})

RiskAnalysis ==
    /\ pc = "risk"
    /\ \E st \in {RiskLoop} :
          /\ risk_data' = st.rows
          /\ compliance_rows' = st.crows
          /\ alerts' = st.alerts
          /\ IF st.raised
             THEN pc' = "ValueError" /\ UNCHANGED <<df_risk, df_alerts>>
             ELSE /\ pc' = "filters"
                  /\ df_risk' = <<st.rows>>
                  /\ df_alerts' = <<st.alerts>>
    /\ UNCHANGED <<Inputs, NetVars, MapVars, CompVars, FilterVars>>

-----------------------------------------------------------------------------
(* Risk filters and heatmap *)

\* ["All"] + sorted(df_risk["Asset"].unique()), offered when the table has rows
AssetOptions(rows) == {Str(All)} \cup {rows[i].Asset : i \in DOMAIN rows}
SeverityOptions(rows) == {"All"} \cup {rows[i].Severity : i \in DOMAIN rows}

\* filtered_risk[filtered_risk["Tool"] == tool_filter], when tool_filter != "All"
ByTool(rows) ==
    IF tool_filter # All
    THEN SelectSeq(rows, LAMBDA r : ~LabelNeStr(r.Tool, tool_filter))
    ELSE rows

\* filtered_risk[filtered_risk["Asset"] == asset_filter], when asset_filter != "All"
ByAsset(rows, af) ==
    IF LabelNeStr(af, All) THEN SelectSeq(rows, LAMBDA r : r.Asset = af) ELSE rows

\* filtered_risk[filtered_risk["Severity"] == severity_filter], when not "All"
BySeverity(rows, sf) ==
    IF sf # "All" THEN SelectSeq(rows, LAMBDA r : r.Severity = sf) ELSE rows

\* mutant of SumRiskScore: the last row of the group instead of the sum
SumRiskScoreLast(rows, t, a) ==
    LET F[i \in 0..Len(rows)] ==
            IF i = 0 THEN 0
            ELSE IF rows[i].Tool = t /\ rows[i].Asset = a
            THEN rows[i].RiskScore
            ELSE F[i - 1]
    IN  F[Len(rows)]

\* the sum of the Risk Score of the rows of one Tool and Asset
SumRiskScore(rows, t, a) ==
    LET F[i \in 0..Len(rows)] ==
            IF i = 0 THEN 0
            ELSE IF rows[i].Tool = t /\ rows[i].Asset = a
            THEN F[i - 1] + rows[i].RiskScore
            ELSE F[i - 1]
    IN  F[Len(rows)]

\* groupby(["Tool", "Asset"])["Risk Score"].sum(): one entry per group present
GroupSums(rows) ==
    [k \in {<<rows[i].Tool, rows[i].Asset>> : i \in DOMAIN rows} |->
        SumRiskScore(rows, k[1], k[2])]

\* pivot_table(index="Tool", columns="Asset", values="Risk Score",
\*             aggfunc="sum", fill_value=0)
Unstack(sums) ==
    [c \in {k[1] : k \in DOMAIN sums} \X {k[2] : k \in DOMAIN sums} |->
        IF c \in DOMAIN sums THEN sums[c] ELSE 0]
PivotTable(rows) == Only({Unstack(sums) : sums \in {GroupSums(rows)}})

\* the selectors return what the user has selected among their options
RiskFilters ==
    /\ pc = "filters"
    /\ \E af \in AssetOptions(df_risk[1]), sf \in SeverityOptions(df_risk[1]) :
          \E rows \in {BySeverity(ByAsset(ByTool(df_risk[1]), af), sf)} :
              /\ asset_filter' = af
              /\ severity_filter' = sf
              /\ filtered_risk' = rows
              /\ heatmap' = IF rows = <<>> THEN <<>> ELSE <<PivotTable(rows)>>
    /\ pc' = "done"
    /\ UNCHANGED <<Inputs, NetVars, MapVars, CompVars, RiskVars>>

-----------------------------------------------------------------------------
(* The ontologies a pass is run on *)

MaxHasControl == 2          \* hasControl triples in a relationship ontology
MaxHasMitigation == 2       \* hasMitigation triples in a relationship ontology
MaxImplements == 2          \* implementsControl triples in a compliance ontology
MaxTargets == 3             \* isTargetedBy triples in a risk ontology

UpTo(S, k) == {T \in SUBSET S : Cardinality(T) <= k}

NoValues(S) == [n \in S |-> <<>>]

\* texts of labels
LblA == <<"A">>
LblPlaceA == <<SubFor, " ", "A">>
LblUpperB == <<"SUBCATEGORY FOR", " ", "B">>
LblC1 == <<" ", "c1", " ">>
LblT == <<"T">>

Base ==
    [subcats |-> {s1}, controls |-> {c1, c2}, tools |-> {t1},
     hasControl |-> {<<s1, c1>>}, hasMitigation |-> {<<c1, q1>>},
     implementsControl |-> {}, isTargetedBy |-> {<<a1, h1>>},
     label |-> [n \in Nodes |-> <<>>],
     severityLevel |-> NoValues({h1, h2}), likelihood |-> NoValues({h1, h2}),
     impact |-> NoValues({h1, h2}), riskScore |-> NoValues({h1, h2}),
     rev |-> FALSE]

\* relationship ontologies: sub-categories, controls, techniques and labels
\* vary; no tool
Unlabelled == NoValues(Nodes)
PlaceholderLabels == (s1 :> <<LblPlaceA>>) @@ (s2 :> <<LblA>>) @@ Unlabelled
SameLabels == (s1 :> <<LblA>>) @@ (s2 :> <<LblA>>) @@ (q1 :> <<LblA>>) @@ Unlabelled
UpperCaseLabels == (s2 :> <<LblUpperB>>) @@ (c1 :> <<LblA>>) @@ Unlabelled
PaddedLabels == (c2 :> <<LblC1>>) @@ (sX :> <<LblA>>) @@ Unlabelled

\* <<typed sub-categories, store order reversed, labels>>
RelProfiles ==
    { <<{s1, s2, sX}, FALSE, Unlabelled>>, <<{s1, s2, sX}, TRUE, Unlabelled>>,
      <<{s1, s2, sX}, FALSE, PlaceholderLabels>>, <<{s1, s2, sX}, TRUE, PlaceholderLabels>>,
      <<{s1, s2, sX}, FALSE, SameLabels>>, <<{s1, s2, sX}, FALSE, UpperCaseLabels>>,
      <<{s1, s2, sX}, TRUE, PaddedLabels>>, <<{s1}, FALSE, Unlabelled>> }

HasControlCandidates ==
    {<<s1, c1>>, <<s2, c1>>, <<s1, c2>>, <<sX, c1>>, <<s1, cX>>}
HasMitigationCandidates ==
    {<<c1, q1>>, <<c2, q1>>, <<c1, qX>>, <<cX, q1>>, <<c2, bq>>}

RelOntologies ==
    {[Base EXCEPT !.subcats = pr[1], !.rev = pr[2], !.label = pr[3], !.tools = {},
                  !.hasControl = hc, !.hasMitigation = hm] :
        pr \in RelProfiles,
        hc \in UpTo(HasControlCandidates, MaxHasControl),
        hm \in UpTo(HasMitigationCandidates, MaxHasMitigation)}

\* compliance ontologies: controls, tools and what they implement vary
CompLabels ==
    { Unlabelled,
      (t2 :> <<LblT>>) @@ (c2 :> <<LblA>>) @@ Unlabelled,
      (t1 :> <<LblT>>) @@ (t2 :> <<LblT>>) @@ (q1 :> <<LblA>>) @@ Unlabelled }

CompOntologies ==
    {[Base EXCEPT !.controls = cs, !.tools = {t1, t2}, !.implementsControl = ic,
                  !.hasMitigation = {<<c1, q1>>} \cup hm, !.label = lb] :
        cs \in {{}, {c1}, {c1, c2}, {c1, c2, cX}},
        ic \in UpTo({t1, t2} \X {c1, c2, cX}, MaxImplements),
        hm \in {{}, {<<c2, q2>>}, {<<cX, q1>>, <<c2, q1>>}},
        lb \in CompLabels}

\* risk ontologies: targets, threat attributes and compliance levels vary
RiskOntologies ==
    {[Base EXCEPT !.tools = {t1, t2}, !.label = (t2 :> <<LblT>>) @@ Unlabelled,
                  !.implementsControl = ic, !.isTargetedBy = tb,
                  !.severityLevel = (h1 :> sv) @@ (h2 :> <<"Medium">>),
                  !.likelihood = (h1 :> li[1]) @@ (h2 :> <<>>),
                  !.impact = (h1 :> li[2]) @@ (h2 :> <<>>),
                  !.riskScore = (h1 :> rs) @@ (h2 :> rs2)] :
        ic \in {{}, {<<t1, c1>>}},
        tb \in UpTo({a1, a2} \X {h1, h2}, MaxTargets),
        sv \in {<<>>, <<"High">>},
        li \in {<< <<>>, <<>> >>, << <<"0.5">>, <<"3">> >>,
                << <<"abc">>, <<"3">> >>, << <<"0.5">>, <<"3.0">> >>},
        rs \in {<<>>, <<"7.0">>, <<"5.0">>, <<"4.9">>, <<"abc">>},
        rs2 \in {<<"7.0">>, <<"abc">>}}

Ontologies == RelOntologies \cup CompOntologies \cup RiskOntologies

-----------------------------------------------------------------------------
(* The pass *)

\* the options of the tool selector: ["All"] + tools
ToolOptions == {All} \cup {RawLabel(t).s : t \in g.tools}

Cleared ==
    /\ net_nodes = {} /\ net_edges = {}
    /\ mapped = <<>> /\ df_mapped = <<>>
    /\ compliance_summary = <<>> /\ recommendations = <<>>
    /\ risk_data = <<>> /\ compliance_rows = <<>> /\ alerts = <<>>
    /\ df_risk = <<>> /\ df_alerts = <<>>
    /\ asset_filter = Str(All) /\ severity_filter = "All"
    /\ filtered_risk = <<>> /\ heatmap = <<>>

\* the first run of the script: the selector shows its first option
Init ==
    /\ g \in Ontologies
    /\ variant \in {"v1", "v0"}
    /\ tool_filter = All
    /\ pc = "explorer"
    /\ Cleared

\* the user picks a tool: the script runs again from the top
SelectTool ==
    /\ pc \in {"done", "KeyError", "ValueError"}
    /\ \E f \in ToolOptions \ {tool_filter} : tool_filter' = f
    /\ pc' = "explorer"
    /\ net_nodes' = {} /\ net_edges' = {}
    /\ mapped' = <<>> /\ df_mapped' = <<>>
    /\ compliance_summary' = <<>> /\ recommendations' = <<>>
    /\ risk_data' = <<>> /\ compliance_rows' = <<>> /\ alerts' = <<>>
    /\ df_risk' = <<>> /\ df_alerts' = <<>>
    /\ asset_filter' = Str(All) /\ severity_filter' = "All"
    /\ filtered_risk' = <<>> /\ heatmap' = <<>>
    /\ UNCHANGED <<g, variant>>

Next ==
    \/ GraphExplorerV1
    \/ GraphExplorerV0
    \/ MappedMitigationsV1
    \/ MappedMitigationsV0
    \/ ToolCompliance
    \/ RiskAnalysis
    \/ RiskFilters
    \/ SelectTool

Spec == Init /\ [][Next]_vars

-----------------------------------------------------------------------------
(* Properties *)

Count(rows, r) == Cardinality({i \in DOMAIN rows : rows[i] = r})
Rows(rows) == {rows[i] : i \in DOMAIN rows}

PassingTools == {T \in g.tools : PassesFilter(T)}

\* <<Tool, <<Asset, Threat>>>> for every passing tool and isTargetedBy triple
Combos == PassingTools \X g.isTargetedBy

Present(prop, n) == Values(prop, n) # <<>>

\* the threat's attributes as the graph holds them, with the stated defaults
SeverityOf(Th) ==
    IF Present(g.severityLevel, Th) THEN Values(g.severityLevel, Th)[1] ELSE "Unknown"
LikelihoodOf(Th) ==
    IF Present(g.likelihood, Th) THEN Float(Values(g.likelihood, Th)[1]).v ELSE 0
ImpactOf(Th) ==
    IF Present(g.impact, Th) THEN Int10(Values(g.impact, Th)[1]).v ELSE 0
RiskScoreOf(Th) ==
    IF Present(g.riskScore, Th) THEN Float(Values(g.riskScore, Th)[1]).v ELSE 0

\* a numeric literal of the threat does not coerce
Malformed(Th) ==
    \/ Present(g.likelihood, Th) /\ ~Float(Values(g.likelihood, Th)[1]).ok
    \/ Present(g.impact, Th) /\ ~Int10(Values(g.impact, Th)[1]).ok
    \/ Present(g.riskScore, Th) /\ ~Float(Values(g.riskScore, Th)[1]).ok

KeyOf(c) == <<RawLabel(c[1]), RawLabel(c[2][1]), RawLabel(c[2][2])>>
KeyOfRow(r) == <<r.Tool, r.Asset, r.Threat>>

C1_Condition(c) ==
    /\ RiskScoreOf(c[2][2]) >= 50
    /\ SeverityOf(c[2][2]) = "High"
    /\ Score(c[1]).n < 50 * Score(c[1]).d

\* C1: every alert row belongs to a passing Tool and an isTargetedBy pair
\* with riskScore >= 5.0, severity "High" and compliance score < 50; and when
\* the pass completes, each such combination has its alert row and no other
\* combination has one (rows counted per Tool, Asset, Threat labels).
C1_AlertRule ==
    /\ \A i \in DOMAIN alerts :
          \E c \in Combos : KeyOf(c) = KeyOfRow(alerts[i]) /\ C1_Condition(c)
    /\ pc = "filters" =>
          /\ Len(alerts) = Cardinality({c \in Combos : C1_Condition(c)})
          /\ \A c \in Combos :
                Cardinality({i \in DOMAIN alerts : KeyOfRow(alerts[i]) = KeyOf(c)})
                  = Cardinality({d \in Combos : KeyOf(d) = KeyOf(c) /\ C1_Condition(d)})
          /\ df_alerts = <<alerts>>

C1_Witness ==
    /\ pc = "filters"
    /\ alerts # <<>>
    /\ Len(alerts) < Len(risk_data)
    /\ \E c \in Combos : RiskScoreOf(c[2][2]) = 50 /\ C1_Condition(c)

C6_Row(c) ==
    [Tool |-> RawLabel(c[1]), Asset |-> RawLabel(c[2][1]), Threat |-> RawLabel(c[2][2]),
     Severity |-> SeverityOf(c[2][2]), Likelihood |-> LikelihoodOf(c[2][2]),
     Impact |-> ImpactOf(c[2][2]), RiskScore |-> RiskScoreOf(c[2][2])]

\* C6: when the pass completes, the risk table holds exactly one row for each
\* passing Tool and isTargetedBy pair and no other row, each row carrying the
\* Threat's severity, likelihood, impact and riskScore, an absent attribute
\* taking "Unknown", 0.0, 0, 0.0.
C6_RiskTable ==
    pc = "filters" =>
        /\ Len(risk_data) = Cardinality(Combos)
        /\ \A c \in Combos :
              Count(risk_data, C6_Row(c))
                = Cardinality({d \in Combos : C6_Row(d) = C6_Row(c)})
        /\ df_risk = <<risk_data>>

C6_Witness ==
    /\ pc = "filters"
    /\ Cardinality(Combos) >= 2
    /\ \E i \in DOMAIN risk_data :
          /\ risk_data[i].Severity = "Unknown"
          /\ risk_data[i].Likelihood = 0
          /\ risk_data[i].Impact = 0
          /\ risk_data[i].RiskScore = 0
    /\ \E i \in DOMAIN risk_data : risk_data[i].RiskScore = 70

C8_Pre ==
    /\ PassingTools # {}
    /\ \E tr \in g.isTargetedBy : Malformed(tr[2])

\* C8: when a targeted Threat has a numeric literal that does not coerce and
\* some Tool passes the filter, the pass never completes its risk analysis: it
\* ends in ValueError with no risk table and no alert table built, and every
\* risk row appended before the error carries the true values of a Threat
\* whose literals all coerce.
C8_FatalCoercion ==
    /\ C8_Pre => pc # "filters"
    /\ (C8_Pre /\ pc \notin {"explorer", "mitigations", "compliance", "risk", "KeyError"})
          => pc = "ValueError" /\ df_risk = <<>> /\ df_alerts = <<>>
    /\ C8_Pre =>
          \A i \in DOMAIN risk_data :
              \E c \in Combos : ~Malformed(c[2][2]) /\ risk_data[i] = C6_Row(c)

C8_Witness ==
    /\ C8_Pre
    /\ pc = "ValueError"
    /\ risk_data # <<>>

\* C9: without any Control every compliance score computed is 0, whatever the
\* Tool implements, and the risk analysis ends in an error only through a
\* literal that does not coerce (never through the division).
C9_NoControls ==
    g.controls = {} =>
        /\ \A i \in DOMAIN compliance_rows : compliance_rows[i].Score = 0
        /\ pc = "filters" => Len(compliance_rows) = Cardinality(PassingTools)
        /\ pc = "ValueError" => C8_Pre

C9_Witness ==
    /\ g.controls = {}
    /\ pc = "filters"
    /\ \E i \in DOMAIN compliance_rows :
          compliance_rows[i].Passed > 0 /\ compliance_rows[i].Score = 0

\* the items of a joined list
Items(joined) == joined \ {Str(<<"None">>)}

LocalNames(S) == {Str(SplitLast(n.id)) : n \in S}

\* C2: in every row of the compliance summary the compliant list and the
\* missing list partition the Controls of the graph: together they are all
\* the Controls, and they share none.
C2_Partition ==
    \A i \in DOMAIN compliance_summary :
        /\ Items(compliance_summary[i].CompliantWith)
             \cup Items(compliance_summary[i].NonCompliantWith) = LocalNames(g.controls)
        /\ Items(compliance_summary[i].CompliantWith)
             \cap Items(compliance_summary[i].NonCompliantWith) = {}

\* C3: in every row of the compliance scores the score is 100 exactly when no
\* Control is missing (Failed = 0), and it never exceeds 100.  Stated for
\* graphs that have Controls: without any, the score is 0 by C9.
C3_FullScore ==
    g.controls # {} =>
        \A i \in DOMAIN compliance_rows :
            /\ compliance_rows[i].Score = 10000 <=> compliance_rows[i].Failed = 0
            /\ compliance_rows[i].Score <= 10000

\* the label a script shows for an entity
ShownLabel(x) == IF variant = "v1" THEN CleanLabel(x) ELSE RawLabel(x)

\* a placeholder sub-category: its label begins with the filter prefix
IsPlaceholder(s) == StartsWithSubcategoryFor(RawLabel(s).s)

ValidPaths ==
    {p \in {<<x[1], x[2], y[2]>> : x \in g.hasControl, y \in g.hasMitigation} :
        /\ <<p[2], p[3]>> \in g.hasMitigation
        /\ is_valid_uri(p[1]) /\ is_valid_uri(p[2]) /\ is_valid_uri(p[3])
        /\ ~IsPlaceholder(p[1])}

\* C4: once built, the mitigation mapping table holds exactly the rows of the
\* valid SubCategory -hasControl-> Control -hasMitigation-> Technique paths
\* whose sub-category is no placeholder, one row per sub-category of a
\* control, and no two equal rows.
C4_MappingRows ==
    pc \notin {"explorer", "mitigations"} =>
        /\ Rows(df_mapped)
             = {MapRow(ShownLabel(p[1]), ShownLabel(p[2]), ShownLabel(p[3])) : p \in ValidPaths}
        /\ \A i, j \in DOMAIN df_mapped : df_mapped[i] = df_mapped[j] => i = j

\* the local name f occurs in a derived output
Appears(f) ==
    \/ f \in net_nodes
    \/ \E e \in net_edges : f \in {e[1], e[2]}
    \/ \E i \in DOMAIN df_mapped :
          f \in {df_mapped[i].subcategory, df_mapped[i].control, df_mapped[i].technique}
    \/ \E i \in DOMAIN compliance_summary :
          \/ f = compliance_summary[i].Tool
          \/ f \in compliance_summary[i].CompliantWith
          \/ f \in compliance_summary[i].NonCompliantWith
          \/ f \in compliance_summary[i].RecommendedMitigations
    \/ \E i \in DOMAIN recommendations :
          f \in {recommendations[i].Tool, recommendations[i].MissingControl,
                 recommendations[i].SuggestedTechnique}
    \/ \E i \in DOMAIN risk_data :
          f \in {risk_data[i].Tool, risk_data[i].Asset, risk_data[i].Threat}
    \/ \E i \in DOMAIN alerts :
          f \in {alerts[i].Tool, alerts[i].Asset, alerts[i].Threat}

\* an identifier with a space or a comma in it
MalformedId(n) ==
    n.kind = "URIRef" /\ \E i \in 1..Len(n.id) : HasSpace(n.id[i]) \/ HasComma(n.id[i])

\* C5: in a pass of dashboard_v1.py (the script with the validity guard) an
\* entity with a malformed identifier (shown by its local name, having no
\* label) appears in no derived output: network, mapping table, compliance
\* summary, recommendations, risk rows, alert rows.
C5_NoMalformed ==
    variant = "v1" =>
        \A n \in Nodes :
            (MalformedId(n) /\ ~Present(g.label, n)) => ~Appears(Str(SplitLast(n.id)))

\* <<Tool, missing Control, Technique>>
RecoPairs ==
    {p \in {<<T, x[1], x[2]>> : T \in PassingTools, x \in g.hasMitigation} :
        p[2] \in Missing(p[1])}

C7_Row(p, tail) ==
    [Tool |-> RawLabel(p[1]),
     MissingControl |-> RawLabel(p[2]),
     SuggestedTechnique |-> RawLabel(p[3]),
     Explanation |-> RawLabel(p[1]).s \o <<" lacks NIST control ">> \o RawLabel(p[2]).s
                       \o <<", which is mitigated by ">> \o RawLabel(p[3]).s \o <<tail>>]

C7_Table(tail) ==
    pc \notin {"explorer", "mitigations", "compliance", "KeyError"} =>
        /\ Len(recommendations) = Cardinality(RecoPairs)
        /\ \A p \in RecoPairs :
              Count(recommendations, C7_Row(p, tail))
                = Cardinality({d \in RecoPairs : C7_Row(d, tail) = C7_Row(p, tail)})

\* C7: once the compliance loop has run, the recommendation table holds one
\* row per passing Tool, missing Control and Technique mitigating it, and no
\* other row, the explanation being "<Tool> lacks NIST control <Control>,
\* which is mitigated by <Technique> of the D3FEND Technique."
C7_Recommendations == C7_Table(" of the D3FEND Technique.")

\* the same table with the explanation as the scripts spell it
C7_RowsAsSpelled == C7_Table(" of the D3fend Technique.")

GraphSubcats == {s \in g.subcats : is_valid_uri(s) /\ ~IsPlaceholder(s)}
GraphControls == {x \in g.hasControl : x[1] \in GraphSubcats /\ is_valid_uri(x[2])}
GraphTechs ==
    {y \in g.hasMitigation :
        is_valid_uri(y[2]) /\ \E x \in GraphControls : x[2] = y[1]}

\* C10: once built, the network has one node per label among the valid
\* non-placeholder SubCategories, the valid Controls they reach and the valid
\* Techniques those reach, and exactly the edges of those hasControl and
\* hasMitigation steps; a placeholder sub-category adds nothing.
C10_Network ==
    pc # "explorer" =>
        /\ net_nodes = {ShownLabel(s) : s \in GraphSubcats}
                         \cup {ShownLabel(x[2]) : x \in GraphControls}
                         \cup {ShownLabel(y[2]) : y \in GraphTechs}
        /\ net_edges = {<<ShownLabel(x[1]), ShownLabel(x[2])>> : x \in GraphControls}
                         \cup {<<ShownLabel(y[1]), ShownLabel(y[2])>> : y \in GraphTechs}

\* C12: in every row of the compliance scores Passed + Failed is the number
\* of Controls of the graph and Score is 100 * Passed / total rounded to two
\* places (0 without Controls), whatever the Tool implements.
C12_PassedFailed ==
    \A i \in DOMAIN compliance_rows :
        /\ compliance_rows[i].Passed + compliance_rows[i].Failed = Cardinality(g.controls)
        /\ compliance_rows[i].Score =
              IF g.controls = {} THEN 0
              ELSE Round2([n |-> 100 * compliance_rows[i].Passed,
                           d |-> Cardinality(g.controls)])

\* the Score half of C12 alone
C12_ScoreOfPassed ==
    \A i \in DOMAIN compliance_rows :
        compliance_rows[i].Score =
            IF g.controls = {} THEN 0
            ELSE Round2([n |-> 100 * compliance_rows[i].Passed,
                         d |-> Cardinality(g.controls)])

\* the risk rows that pass the Tool, Asset and Severity selections
C11_Remaining ==
    {i \in DOMAIN risk_data :
        /\ tool_filter = All \/ risk_data[i].Tool.s = tool_filter
        /\ asset_filter = Str(All) \/ risk_data[i].Asset = asset_filter
        /\ severity_filter = "All" \/ risk_data[i].Severity = severity_filter}

\* the sum of the Risk Score of the risk rows I
RECURSIVE C11_Sum(_)
C11_Sum(I) ==
    IF I = {} THEN 0
    ELSE LET i == CHOOSE j \in I : TRUE
         IN  risk_data[i].RiskScore + C11_Sum(I \ {i})

C11_Cell(t, a) ==
    C11_Sum({i \in C11_Remaining : risk_data[i].Tool = t /\ risk_data[i].Asset = a})

\* C11: when the pass is over, the heatmap has a cell for every Tool label
\* and Asset label that occur in the risk rows left by the Tool, Asset and
\* Severity filters; the cell is the sum of the Risk Score of the remaining
\* rows of that Tool and Asset, 0 when there is none.  Without remaining
\* rows no heatmap is built.
C11_Heatmap ==
    pc = "done" =>
        /\ Len(filtered_risk) = Cardinality(C11_Remaining)
        /\ C11_Remaining = {} => heatmap = <<>>
        /\ C11_Remaining # {} =>
              /\ heatmap # <<>>
              /\ DOMAIN heatmap[1] =
                    {risk_data[i].Tool : i \in C11_Remaining}
                      \X {risk_data[i].Asset : i \in C11_Remaining}
              /\ \A c \in DOMAIN heatmap[1] : heatmap[1][c] = C11_Cell(c[1], c[2])

C11_Witness ==
    /\ pc = "done"
    /\ asset_filter # Str(All)
    /\ Cardinality(C11_Remaining) < Len(risk_data)
    /\ heatmap # <<>>
    /\ \E c \in DOMAIN heatmap[1] :
          /\ heatmap[1][c] = 120
          /\ Cardinality({i \in C11_Remaining : risk_data[i].Tool = c[1]
                                                  /\ risk_data[i].Asset = c[2]}) = 2

\* every cell of a heatmap has a remaining row: each passing Tool gets a row
\* for every isTargetedBy pair, and no filter tells the Tools' Assets apart
C11_CellsHaveRows ==
    heatmap # <<>> =>
        \A c \in DOMAIN heatmap[1] :
            \E i \in C11_Remaining : <<risk_data[i].Tool, risk_data[i].Asset>> = c

=============================================================================
